---- MODULE Spec2Model ----
(***************************************************************************)
(* Carbon credit monitoring: the emission-to-credit derivation.            *)
(*                                                                         *)
(* The store is the MySQL schema of database/carbon_schema.sql: the tables *)
(* Emission_Data, Carbon_Credit, Credit_Emission_Map and Alert, the stored *)
(* procedures check_emission_threshold and calculate_carbon_credits, and   *)
(* the trigger after_emission_insert.  Two clients insert readings: the    *)
(* handler of POST /api/emissions (backend/server.js) and saveToDatabase   *)
(* of the serial bridge.  Each INSERT INTO Emission_Data is one autocommit *)
(* statement: the rows written by the statement and by the trigger it      *)
(* fires are staged in tx[p] and become visible to other connections only  *)
(* when the statement commits; an error in any sub-statement rolls the     *)
(* whole statement back and rejects the client's promise.                  *)
(*                                                                         *)
(* The other routes of backend/server.js are modelled beside it: the       *)
(* middleware authenticateToken, the read routes GET /api/emissions/recent,*)
(* GET /api/dashboard/stats and GET /api/alerts, whose queries read the    *)
(* committed rows, and POST /api/auth/register on the table User.          *)
(***************************************************************************)
EXTENDS Integers, FiniteSets, Sequences, TLC

VARIABLES
    db,     \* committed rows of each table, what any other connection reads
    tx,     \* tx[p]: rows staged by the statement connection p is running
    pc,     \* pc[p]: the sub-statement connection p executes next
    req,    \* req[p]: the reading connection p is inserting
    err,    \* err[p]: the SQL error that ended p's statement, or "none"
    out,    \* out[p]: what the client code answered last
    users,  \* rows of the table User
    web,    \* web[h]: the HTTP request handler h is serving, and how far it is
    res     \* res[h]: the HTTP response handler h sent last

vars == <<db, tx, pc, req, err, out, users, web, res>>

\* the state of the ingestion path, and the state of the other HTTP routes
ingestVars == <<db, tx, pc, req, err, out>>
httpVars == <<users, web, res>>

----------------------------------------------------------------------------
(* Bounds *)

\* distinct values of `EM_${Date.now()}_${rand}` the clients can generate
NumEmissionIds == 2
\* distinct values of FLOOR(RAND() * 10000) within one day
NumCreditIds == 2
\* distinct values of the second-resolution time plus FLOOR(RAND() * 1000)
NumAlertIds == 2
\* largest small reading handed to the procedures called directly
MaxProcValue == 26
\* calls of each procedure on one reading when called directly
MaxProcCalls == 1

----------------------------------------------------------------------------
(* Schema *)

NULL == <<>>

Tables == {"Emission_Data", "Carbon_Credit", "Credit_Emission_Map", "Alert"}

EmptyStore == [t \in Tables |-> {}]

\* sample rows of User and Sensor: SENSOR_001 of user 1, SENSOR_004 of user 2
User == {1, 2}

Sensor == { [sensor_id |-> <<"SENSOR", 1>>, user_id |-> 1, status |-> "active"],
            [sensor_id |-> <<"SENSOR", 4>>, user_id |-> 2, status |-> "active"] }

\* DECLARE v_threshold FLOAT DEFAULT 1000
v_threshold == 1000

\* the two client programs, each with its own connection
Conns == {"api", "bridge"}

PrimaryKey(t) ==
    CASE t = "Emission_Data"       -> "emission_id"
      [] t = "Carbon_Credit"       -> "credit_id"
      [] t = "Credit_Emission_Map" -> "map_id"
      [] t = "Alert"               -> "alert_id"

Keys(rows, t) == { r[PrimaryKey(t)] : r \in rows }

\* what the statement of connection p reads: committed rows and its own
OwnView(p, t) == db[t] \cup tx[p][t]

Snapshot_Dirty(t) == db[t] \cup UNION { tx[q][t] : q \in Conns }

\* what every other connection reads (READ COMMITTED / REPEATABLE READ)
Snapshot(t) == db[t]

\* another running statement holds the row lock of an uncommitted key
LockedByOther(p, t, key) ==
    \E q \in Conns \ {p} : key \in Keys(tx[q][t], t)

----------------------------------------------------------------------------
(* Inputs *)

\* co2_value of a request body or of a parsed serial line: a number, absent
\* (undefined, bound as NULL) or not a finite number
Co2Numbers == {850, 1000, 1050}

Co2Inputs ==
    [kind : {"number"}, value : Co2Numbers]
        \cup { [kind |-> "missing", value |-> 0],
               [kind |-> "nonfinite", value |-> 0] }

\* sensor_id of a request: an existing sensor, an unknown one, or absent
SensorInputs == { s.sensor_id : s \in Sensor } \cup { <<"SENSOR", 999>>, NULL }

EmissionIds == { <<"EM", n>> : n \in 1..NumEmissionIds }
CreditIds   == { <<"CC", n>> : n \in 1..NumCreditIds }
AlertIds    == { <<"ALERT", n>> : n \in 1..NumAlertIds }

\* what a running statement holds: NEW.emission_id and NEW.co2_value of the
\* trigger, v_alert_id and v_credit_id of the procedures
NoRequest == [emission_id |-> NULL, co2_value |-> 0,
              alert_id |-> NULL, credit_id |-> NULL]

----------------------------------------------------------------------------
(* The HTTP interface: requests, tokens, responses *)

\* requests Express serves at the same time, each in its own async handler
Handlers == {"h1", "h2"}

\* INSERT INTO User (...) VALUES: the sample users, user_id by AUTO_INCREMENT
SampleUsers == { [user_id |-> 1, email |-> "demo@industry.com"],
                 [user_id |-> 2, email |-> "admin@greentech.com"],
                 [user_id |-> 3, email |-> "operator@ecofactory.com"] }

\* the payload jwt.sign puts in a token at login, and what jwt.verify finds:
\* a good signature within 24h, a signature made with another secret, or a
\* good signature past its expiry
Tokens == [user_id : User, state : {"valid", "forged", "expired"}]

NoToken == [user_id |-> 0, state |-> "none"]

\* one space-separated part of the Authorization header: a word such as
\* Bearer, a token, or the empty string a trailing space leaves
HeaderParts ==
    {[kind |-> "word", jwt |-> NoToken], [kind |-> "empty", jwt |-> NoToken]}
        \cup {[kind |-> "jwt", jwt |-> t] : t \in Tokens}

\* req.headers['authorization'] split at spaces; <<>> is a request without
\* the header
AuthHeaders ==
    {<<>>}
        \cup {<<a>> : a \in {x \in HeaderParts : x.kind # "empty"}}
        \cup {<<a, b>> : a \in {x \in HeaderParts : x.kind = "word"},
                         b \in HeaderParts}

\* req.body of POST /api/auth/register: which fields are there, and the email
NoBody == [name |-> FALSE, email |-> "", password |-> FALSE]

\* the four values GET /api/dashboard/stats collects, one query each
NoStats == [current_emission |-> 0, total_credits |-> 0,
            active_sensors |-> 0, unread_alerts |-> 0]

NoCall == [pc |-> "idle", route |-> "none", hdr |-> <<>>, user |-> 0,
           body |-> NoBody, acc |-> NoStats]

NoResponse == [status |-> 0, error |-> "", body |-> <<>>]

HttpInit ==
    /\ users = SampleUsers
    /\ web = [h \in Handlers |-> NoCall]
    /\ res = [h \in Handlers |-> NoResponse]

----------------------------------------------------------------------------
(* Statement execution *)

Stage_Autocommit(p, t, row) ==
    /\ db' = [db EXCEPT ![t] = @ \cup {row}]
    /\ UNCHANGED tx

\* a sub-statement writes a row: staged until the statement commits
Stage(p, t, row) ==
    /\ tx' = [tx EXCEPT ![p][t] = @ \cup {row}]
    /\ UNCHANGED db

Rollback_KeepsRows(p, e) ==
    /\ db' = [t \in DOMAIN db |-> db[t] \cup tx[p][t]]
    /\ tx' = [tx EXCEPT ![p] = [t \in DOMAIN db |-> {}]]
    /\ err' = [err EXCEPT ![p] = e]
    /\ pc' = [pc EXCEPT ![p] = "respond"]
    /\ UNCHANGED req

\* an SQL error: the whole INSERT statement, trigger included, is rolled back
\* and the promise of query()/execute() rejects
Rollback(p, e) ==
    /\ tx' = [tx EXCEPT ![p] = EmptyStore]
    /\ err' = [err EXCEPT ![p] = e]
    /\ pc' = [pc EXCEPT ![p] = "respond"]
    /\ UNCHANGED <<db, req>>

\* the statement ends without error: autocommit makes its rows visible
Commit(p) ==
    /\ pc[p] = "commit"
    /\ db' = [t \in Tables |-> db[t] \cup tx[p][t]]
    /\ tx' = [tx EXCEPT ![p] = EmptyStore]
    /\ err' = [err EXCEPT ![p] = "none"]
    /\ pc' = [pc EXCEPT ![p] = "respond"]
    /\ UNCHANGED <<req, out>>

\* the row of Emission_Data the statement of p inserted, as p reads it
NewRow(p) == CHOOSE r \in OwnView(p, "Emission_Data") :
                 r.emission_id = req[p].emission_id

----------------------------------------------------------------------------
(* Credit Calculator and Alert Classifier: the expressions of the procedures.
   The columns are FLOAT; readings, limits and thresholds are whole numbers of
   kilograms, for which the comparisons below are exact.  p_threshold * 1.2 and
   p_threshold * 1.1 are compared after scaling both sides by 10, and
   credit_amount is kept as the exact quotient num / den. *)

\* IF v_co2_value > p_threshold THEN
ThresholdExceeded(v_co2_value, p_threshold) == v_co2_value > p_threshold

Severity_UpperBand(v_co2_value, p_threshold) ==
    IF v_co2_value * 10 >= p_threshold * 12 THEN "critical"
    ELSE IF v_co2_value * 10 >= p_threshold * 11 THEN "high"
    ELSE "medium"

\* CASE WHEN v_co2_value > p_threshold * 1.2 THEN 'critical'
\*      WHEN v_co2_value > p_threshold * 1.1 THEN 'high' ELSE 'medium' END
Severity(v_co2_value, p_threshold) ==
    IF v_co2_value * 10 > p_threshold * 12 THEN "critical"
    ELSE IF v_co2_value * 10 > p_threshold * 11 THEN "high"
    ELSE "medium"

CreditAmount_Swapped(p_allowed_limit, v_emission_value) ==
    [num |-> v_emission_value - p_allowed_limit, den |-> 1000]

\* SET p_credit_amount = (p_allowed_limit - v_emission_value) / 1000
CreditAmount(p_allowed_limit, v_emission_value) ==
    [num |-> p_allowed_limit - v_emission_value, den |-> 1000]

CreditStatus_Reversed(p_credit_amount) ==
    IF p_credit_amount.num < 0 THEN "earned"
    ELSE IF p_credit_amount.num > 0 THEN "deficit"
    ELSE "neutral"

\* IF p_credit_amount > 0 ... ELSEIF p_credit_amount < 0 ... ELSE ...
CreditStatus(p_credit_amount) ==
    IF p_credit_amount.num > 0 THEN "earned"
    ELSE IF p_credit_amount.num < 0 THEN "deficit"
    ELSE "neutral"

\* SELECT ... FROM Emission_Data e JOIN Sensor s ON e.sensor_id = s.sensor_id
OwnerOf(sensor_id) ==
    (CHOOSE s \in Sensor : s.sensor_id = sensor_id).user_id

\* the row INSERT INTO Alert writes; is_read takes its default FALSE
AlertRow(v_alert_id, v_co2_value, p_threshold, v_user_id) ==
    [alert_id        |-> v_alert_id,
     alert_type      |-> "threshold_exceeded",
     threshold_value |-> p_threshold,
     alert_message   |-> <<v_co2_value, p_threshold>>,
     is_read         |-> FALSE,
     user_id         |-> v_user_id,
     severity        |-> Severity(v_co2_value, p_threshold)]

\* the row INSERT INTO Carbon_Credit writes
CreditRow(v_credit_id, v_emission_value, p_allowed_limit) ==
    [credit_id      |-> v_credit_id,
     emission_value |-> v_emission_value,
     allowed_limit  |-> p_allowed_limit,
     credit_amount  |-> CreditAmount(p_allowed_limit, v_emission_value),
     status         |-> CreditStatus(CreditAmount(p_allowed_limit, v_emission_value))]

\* the row INSERT INTO Credit_Emission_Map writes: map_id = CONCAT('MAP_', id),
\* weight_factor and included_flag take their defaults
MapRow(v_credit_id, p_emission_id) ==
    [map_id        |-> <<"MAP">> \o v_credit_id,
     credit_id     |-> v_credit_id,
     emission_id   |-> p_emission_id,
     weight_factor |-> 1,
     included_flag |-> TRUE]

\* the row INSERT INTO Emission_Data writes; alert_id is not in the column list
EmissionRow(emission_id, co2_value, sensor_id) ==
    [emission_id |-> emission_id,
     co2_value   |-> co2_value,
     sensor_id   |-> sensor_id,
     alert_id    |-> NULL]

\* UPDATE Emission_Data SET alert_id = v_alert_id WHERE emission_id = p_emission_id
SetAlertRef(rows, p_emission_id, v_alert_id) ==
    { IF r.emission_id = p_emission_id THEN [r EXCEPT !.alert_id = v_alert_id] ELSE r
      : r \in rows }

----------------------------------------------------------------------------
(* Ingestion: one INSERT INTO Emission_Data with the trigger it fires *)

\* the table the statement that fired after_emission_insert is using
TriggerTable == "Emission_Data"

\* MySQL refuses, with ER_CANT_UPDATE_USED_TABLE_IN_SF_OR_TRG, a write by a
\* trigger or by a routine it calls to the table its invoking statement uses
WritableInTrigger(t) == t # TriggerTable

\* IF NEW.co2_value <= v_threshold THEN CALL calculate_carbon_credits(...)
AfterCheck_NoCreditAtLimit(co2_value) ==
    IF co2_value < v_threshold THEN "insert_credit" ELSE "commit"

AfterCheck(co2_value) ==
    IF co2_value <= v_threshold THEN "insert_credit" ELSE "commit"

InsertEmissionData_NoPrimaryKey(p, emission_id, sensor_id, co2) ==
    IF co2.kind = "missing" \/ sensor_id = NULL
    THEN Rollback(p, "ER_BAD_NULL_ERROR")
    ELSE IF co2.kind = "nonfinite"
    THEN Rollback(p, "ER_WRONG_VALUE")
    ELSE IF sensor_id \notin { s.sensor_id : s \in Sensor }
    THEN Rollback(p, "ER_NO_REFERENCED_ROW")
    ELSE /\ Stage(p, "Emission_Data",
                  EmissionRow(emission_id, co2.value, sensor_id))
         /\ req' = [req EXCEPT ![p] =
                       [NoRequest EXCEPT !.emission_id = emission_id,
                                         !.co2_value = co2.value]]
         /\ pc' = [pc EXCEPT ![p] = "check_threshold"]
         /\ UNCHANGED err

\* INSERT INTO Emission_Data (...) VALUES (...): column checks, primary key,
\* foreign key, in the order the server applies them to a single-row insert
InsertEmissionData(p, emission_id, sensor_id, co2) ==
    IF co2.kind = "missing" \/ sensor_id = NULL
    THEN Rollback(p, "ER_BAD_NULL_ERROR")
    ELSE IF co2.kind = "nonfinite"
    THEN Rollback(p, "ER_WRONG_VALUE")
    ELSE /\ ~LockedByOther(p, "Emission_Data", emission_id)
         /\ IF emission_id \in Keys(db["Emission_Data"], "Emission_Data")
            THEN Rollback(p, "ER_DUP_ENTRY")
            ELSE IF sensor_id \notin { s.sensor_id : s \in Sensor }
            THEN Rollback(p, "ER_NO_REFERENCED_ROW")
            ELSE /\ Stage(p, "Emission_Data",
                          EmissionRow(emission_id, co2.value, sensor_id))
                 /\ req' = [req EXCEPT ![p] =
                               [NoRequest EXCEPT !.emission_id = emission_id,
                                                 !.co2_value = co2.value]]
                 /\ pc' = [pc EXCEPT ![p] = "check_threshold"]
                 /\ UNCHANGED err

\* the handler of POST /api/emissions: reads the body, generates the id and
\* awaits pool.query(INSERT INTO Emission_Data ...)
PostEmissions ==
    /\ pc["api"] = "idle"
    /\ out' = [out EXCEPT !["api"] = "none"]
    /\ \E id \in EmissionIds, s \in SensorInputs, c \in Co2Inputs :
          InsertEmissionData("api", id, s, c)

\* the serial bridge parsed a JSON line: saveToDatabase(data) generates the id
\* and awaits dbConnection.execute(INSERT INTO Emission_Data ...)
SaveToDatabase ==
    /\ pc["bridge"] = "idle"
    /\ out' = [out EXCEPT !["bridge"] = "none"]
    /\ \E id \in EmissionIds, s \in SensorInputs, c \in Co2Inputs :
          InsertEmissionData("bridge", id, s, c)

\* CALL check_emission_threshold(NEW.emission_id, v_threshold): the SELECT,
\* the IF and the INSERT INTO Alert
CheckEmissionThreshold(p) ==
    /\ pc[p] = "check_threshold"
    /\ UNCHANGED out
    /\ LET e == NewRow(p) IN
       IF ThresholdExceeded(e.co2_value, v_threshold)
       THEN \E v_alert_id \in AlertIds :
              /\ ~LockedByOther(p, "Alert", v_alert_id)
              /\ IF v_alert_id \in Keys(db["Alert"], "Alert")
                 THEN Rollback(p, "ER_DUP_ENTRY")
                 ELSE /\ Stage(p, "Alert",
                               AlertRow(v_alert_id, e.co2_value, v_threshold,
                                        OwnerOf(e.sensor_id)))
                      /\ req' = [req EXCEPT ![p].alert_id = v_alert_id]
                      /\ pc' = [pc EXCEPT ![p] = "update_alert_ref"]
                      /\ UNCHANGED err
       ELSE /\ pc' = [pc EXCEPT ![p] = AfterCheck(e.co2_value)]
            /\ UNCHANGED <<db, tx, req, err>>

\* check_emission_threshold, last statement: UPDATE Emission_Data SET alert_id
UpdateAlertRef(p) ==
    /\ pc[p] = "update_alert_ref"
    /\ UNCHANGED out
    /\ IF WritableInTrigger("Emission_Data")
       THEN /\ tx' = [tx EXCEPT ![p]["Emission_Data"] =
                         SetAlertRef(@, req[p].emission_id, req[p].alert_id)]
            /\ pc' = [pc EXCEPT ![p] = AfterCheck(NewRow(p).co2_value)]
            /\ UNCHANGED <<db, req, err>>
       ELSE Rollback(p, "ER_CANT_UPDATE_USED_TABLE_IN_SF_OR_TRG")

\* CALL calculate_carbon_credits(NEW.emission_id, v_threshold, ...): the
\* SELECT, the two SETs, the id and the INSERT INTO Carbon_Credit
CalculateCarbonCredits(p) ==
    /\ pc[p] = "insert_credit"
    /\ UNCHANGED out
    /\ LET v_emission_value == NewRow(p).co2_value IN
       \E v_credit_id \in CreditIds :
          /\ ~LockedByOther(p, "Carbon_Credit", v_credit_id)
          /\ IF v_credit_id \in Keys(db["Carbon_Credit"], "Carbon_Credit")
             THEN Rollback(p, "ER_DUP_ENTRY")
             ELSE /\ Stage(p, "Carbon_Credit",
                           CreditRow(v_credit_id, v_emission_value, v_threshold))
                  /\ req' = [req EXCEPT ![p].credit_id = v_credit_id]
                  /\ pc' = [pc EXCEPT ![p] = "insert_map"]
                  /\ UNCHANGED err

\* calculate_carbon_credits, last statement: INSERT INTO Credit_Emission_Map
LinkEmissionToCredit(p) ==
    /\ pc[p] = "insert_map"
    /\ UNCHANGED out
    /\ LET row == MapRow(req[p].credit_id, req[p].emission_id) IN
       IF row.map_id \in Keys(OwnView(p, "Credit_Emission_Map"), "Credit_Emission_Map")
       THEN Rollback(p, "ER_DUP_ENTRY")
       ELSE IF \/ row.credit_id \notin Keys(OwnView(p, "Carbon_Credit"), "Carbon_Credit")
               \/ row.emission_id \notin Keys(OwnView(p, "Emission_Data"), "Emission_Data")
       THEN Rollback(p, "ER_NO_REFERENCED_ROW")
       ELSE /\ Stage(p, "Credit_Emission_Map", row)
            /\ pc' = [pc EXCEPT ![p] = "commit"]
            /\ UNCHANGED <<req, err>>

\* POST /api/emissions: res.status(201) after the await, res.status(500) in catch
RespondEmissions ==
    /\ pc["api"] = "respond"
    /\ out' = [out EXCEPT !["api"] = IF err["api"] = "none" THEN "201" ELSE "500"]
    /\ pc' = [pc EXCEPT !["api"] = "idle"]
    /\ req' = [req EXCEPT !["api"] = NoRequest]
    /\ err' = [err EXCEPT !["api"] = "none"]
    /\ UNCHANGED <<db, tx>>

\* saveToDatabase: return true after the await, return false in catch
ReturnSaved ==
    /\ pc["bridge"] = "respond"
    /\ out' = [out EXCEPT !["bridge"] = IF err["bridge"] = "none" THEN "true" ELSE "false"]
    /\ pc' = [pc EXCEPT !["bridge"] = "idle"]
    /\ req' = [req EXCEPT !["bridge"] = NoRequest]
    /\ err' = [err EXCEPT !["bridge"] = "none"]
    /\ UNCHANGED <<db, tx>>

\* the schema script ran: its sample INSERT INTO Emission_Data holds readings
\* above the threshold, fails in the trigger and is rolled back as a whole
Init ==
    /\ db = EmptyStore
    /\ tx = [p \in Conns |-> EmptyStore]
    /\ pc = [p \in Conns |-> "idle"]
    /\ req = [p \in Conns |-> NoRequest]
    /\ err = [p \in Conns |-> "none"]
    /\ out = [p \in Conns |-> "none"]
    /\ HttpInit

Next ==
    \/ PostEmissions /\ UNCHANGED httpVars
    \/ SaveToDatabase /\ UNCHANGED httpVars
    \/ \E p \in Conns : CheckEmissionThreshold(p) /\ UNCHANGED httpVars
    \/ \E p \in Conns : UpdateAlertRef(p) /\ UNCHANGED httpVars
    \/ \E p \in Conns : CalculateCarbonCredits(p) /\ UNCHANGED httpVars
    \/ \E p \in Conns : LinkEmissionToCredit(p) /\ UNCHANGED httpVars
    \/ \E p \in Conns : Commit(p) /\ UNCHANGED httpVars
    \/ RespondEmissions /\ UNCHANGED httpVars
    \/ ReturnSaved /\ UNCHANGED httpVars

Spec == Init /\ [][Next]_vars

----------------------------------------------------------------------------
(* The two procedures called directly by a client session, CALL proc(...),
   on a stored reading: outside a trigger every statement of the procedure
   runs and commits on its own, and the UPDATE of Emission_Data is allowed. *)

\* readings around the band limits of each threshold below
ProcValues ==
    0..MaxProcValue \cup {850, 999, 1000, 1001, 1050, 1100, 1101, 1200, 1201, 1250}

\* thresholds and allowed limits: 1.1x and 1.2x of 10, 20 and 1000 are whole
ProcThresholds == {0, 10, 15, 20, v_threshold}

\* CALL check_emission_threshold(p_emission_id, p_threshold)
CallCheckEmissionThreshold ==
    /\ Cardinality(db["Alert"]) < MaxProcCalls
    /\ \E e \in db["Emission_Data"], p_threshold \in ProcThresholds,
          v_alert_id \in AlertIds :
          /\ ThresholdExceeded(e.co2_value, p_threshold)
          /\ v_alert_id \notin Keys(db["Alert"], "Alert")
          /\ db' = [db EXCEPT
                      !["Alert"] = @ \cup
                          {AlertRow(v_alert_id, e.co2_value, p_threshold,
                                    OwnerOf(e.sensor_id))},
                      !["Emission_Data"] = SetAlertRef(@, e.emission_id, v_alert_id)]
    /\ UNCHANGED <<tx, pc, req, err, out>>

\* CALL calculate_carbon_credits(p_emission_id, p_allowed_limit, @a, @s)
CallCalculateCarbonCredits ==
    /\ Cardinality(db["Carbon_Credit"]) < MaxProcCalls
    /\ \E e \in db["Emission_Data"], p_allowed_limit \in ProcThresholds,
          v_credit_id \in CreditIds :
          /\ v_credit_id \notin Keys(db["Carbon_Credit"], "Carbon_Credit")
          /\ db' = [db EXCEPT
                      !["Carbon_Credit"] = @ \cup
                          {CreditRow(v_credit_id, e.co2_value, p_allowed_limit)},
                      !["Credit_Emission_Map"] = @ \cup
                          {MapRow(v_credit_id, e.emission_id)}]
    /\ UNCHANGED <<tx, pc, req, err, out>>

\* one stored reading of any value, inserted before the trigger existed
ProcInit ==
    /\ \E v \in ProcValues, s \in Sensor :
          db = [EmptyStore EXCEPT !["Emission_Data"] =
                   {EmissionRow(<<"EM", 1>>, v, s.sensor_id)}]
    /\ tx = [p \in Conns |-> EmptyStore]
    /\ pc = [p \in Conns |-> "idle"]
    /\ req = [p \in Conns |-> NoRequest]
    /\ err = [p \in Conns |-> "none"]
    /\ out = [p \in Conns |-> "none"]
    /\ HttpInit

ProcNext ==
    \/ CallCheckEmissionThreshold /\ UNCHANGED httpVars
    \/ CallCalculateCarbonCredits /\ UNCHANGED httpVars

ProcSpec == ProcInit /\ [][ProcNext]_vars

----------------------------------------------------------------------------
(* The authenticated routes of backend/server.js *)

AuthRoutes == {"POST /api/emissions", "GET /api/emissions/recent",
               "GET /api/dashboard/stats", "GET /api/alerts"}

\* authHeader && authHeader.split(' ')[1]: undefined without the header or
\* without a second part
BearerToken(hdr) ==
    IF Len(hdr) >= 2 THEN hdr[2] ELSE [kind |-> "undefined", jwt |-> NoToken]

\* !token: undefined and the empty string are falsy
Falsy(token) == token.kind \in {"undefined", "empty"}

VerifyError_Unchecked(token) == FALSE

\* jwt.verify(token, JWT_SECRET, cb) calls back with err for a string that is
\* no token, a wrong signature or an expired token, else with the payload
VerifyError(token) == token.kind # "jwt" \/ token.jwt.state # "valid"

Respond(h, status, error, body) ==
    /\ res' = [res EXCEPT ![h] = [status |-> status, error |-> error, body |-> body]]
    /\ web' = [web EXCEPT ![h].pc = "done"]

\* app.<method>(route, authenticateToken, handler): the middleware answers 401
\* or 403 itself and calls next(), which starts the handler, only after
\* jwt.verify has handed it the payload
AuthenticateToken(h, route, hdr) ==
    /\ web[h].pc \in {"idle", "done"}
    /\ LET token == BearerToken(hdr) IN
       IF Falsy(token)
       THEN /\ web' = [web EXCEPT ![h] =
                          [NoCall EXCEPT !.pc = "done", !.route = route, !.hdr = hdr]]
            /\ res' = [res EXCEPT ![h] =
                          [status |-> 401, error |-> "Access token required",
                           body |-> <<>>]]
       ELSE IF VerifyError(token)
       THEN /\ web' = [web EXCEPT ![h] =
                          [NoCall EXCEPT !.pc = "done", !.route = route, !.hdr = hdr]]
            /\ res' = [res EXCEPT ![h] =
                          [status |-> 403, error |-> "Invalid token", body |-> <<>>]]
       ELSE /\ web' = [web EXCEPT ![h] =
                          [NoCall EXCEPT !.pc = "handler", !.route = route,
                                         !.hdr = hdr, !.user = token.jwt.user_id]]
            /\ res' = [res EXCEPT ![h] = NoResponse]
    /\ UNCHANGED <<ingestVars, users>>

\* what a query of the pool reads: the committed rows of every table
Stored == [t \in Tables |-> Snapshot(t)]

\* LIMIT 50
RowLimit == 50

Limit(rows, n) == SubSeq(rows, 1, IF Len(rows) < n THEN Len(rows) ELSE n)

\* ORDER BY <time column> DESC; the time of a row is the time in its identifier,
\* the column id
OrderDesc(rows, id) ==
    CHOOSE q \in [1..Cardinality(rows) -> rows] :
        /\ \A i, j \in 1..Cardinality(rows) : i # j => q[i] # q[j]
        /\ \A i, j \in 1..Cardinality(rows) : i < j => q[i][id][2] >= q[j][id][2]

OwnedReadings_AnySensor(user_id, d, sensors) ==
    { ed \in d["Emission_Data"] : \E s \in sensors : s.sensor_id = ed.sensor_id }

\* FROM Emission_Data ed JOIN Sensor s ON ed.sensor_id = s.sensor_id
\* WHERE s.user_id = ?
OwnedReadings(user_id, d, sensors) ==
    { ed \in d["Emission_Data"] :
        \E s \in sensors : s.sensor_id = ed.sensor_id /\ s.user_id = user_id }

\* SELECT ed.* ... ORDER BY ed.timestamp DESC LIMIT 50
RecentEmissions(user_id, d, sensors) ==
    Limit(OrderDesc(OwnedReadings(user_id, d, sensors),
                    "emission_id"), RowLimit)

\* SELECT co2_value ... ORDER BY ed.timestamp DESC LIMIT 1, then
\* currentEmission?.co2_value || 0
CurrentEmission(user_id, d, sensors) ==
    LET rows == Limit(OrderDesc(OwnedReadings(user_id, d, sensors),
                                "emission_id"), 1)
    IN IF rows = <<>> THEN 0 ELSE rows[1].co2_value

RECURSIVE SumAmounts(_)
SumAmounts(joined) ==
    IF joined = {} THEN 0
    ELSE LET x == CHOOSE y \in joined : TRUE
         IN x[1].credit_amount.num + SumAmounts(joined \ {x})

\* SELECT COALESCE(SUM(credit_amount), 0) FROM Carbon_Credit cc JOIN
\* Credit_Emission_Map cem JOIN Emission_Data ed JOIN Sensor s WHERE
\* s.user_id = ?, in thousandths of a credit
TotalCredits(user_id, d, sensors) ==
    SumAmounts({ j \in d["Carbon_Credit"] \X d["Credit_Emission_Map"]
                         \X OwnedReadings(user_id, d, sensors) :
                   /\ j[1].credit_id = j[2].credit_id
                   /\ j[2].emission_id = j[3].emission_id })

\* SELECT COUNT(*) FROM Sensor WHERE user_id = ? AND status = "active"
ActiveSensors(user_id, sensors) ==
    Cardinality({ s \in sensors : s.user_id = user_id /\ s.status = "active" })

\* SELECT COUNT(*) FROM Alert WHERE user_id = ? AND is_read = FALSE
UnreadAlerts(user_id, d) ==
    Cardinality({ a \in d["Alert"] : a.user_id = user_id /\ ~a.is_read })

\* SELECT * FROM Alert WHERE user_id = ? ORDER BY created_at DESC LIMIT 50
AlertsOf(user_id, d) ==
    Limit(OrderDesc({ a \in d["Alert"] : a.user_id = user_id },
                    "alert_id"), RowLimit)

Running(h, route) == web[h].pc = "handler" /\ web[h].route = route

\* GET /api/emissions/recent: one query, then res.json(emissions)
GetRecentEmissions(h) ==
    /\ Running(h, "GET /api/emissions/recent")
    /\ Respond(h, 200, "", RecentEmissions(web[h].user, Stored, Sensor))
    /\ UNCHANGED <<ingestVars, users>>

\* GET /api/alerts: one query, then res.json(alerts)
GetAlerts(h) ==
    /\ Running(h, "GET /api/alerts")
    /\ Respond(h, 200, "", AlertsOf(web[h].user, Stored))
    /\ UNCHANGED <<ingestVars, users>>

\* GET /api/dashboard/stats: four awaited pool.query calls, each its own
\* autocommit statement on a connection of the pool
StatsCurrentEmission(h) ==
    /\ Running(h, "GET /api/dashboard/stats")
    /\ web' = [web EXCEPT ![h].pc = "stats_credits",
                          ![h].acc.current_emission =
                              CurrentEmission(web[h].user, Stored, Sensor)]
    /\ UNCHANGED <<ingestVars, users, res>>

StatsTotalCredits(h) ==
    /\ web[h].pc = "stats_credits"
    /\ web' = [web EXCEPT ![h].pc = "stats_sensors",
                          ![h].acc.total_credits =
                              TotalCredits(web[h].user, Stored, Sensor)]
    /\ UNCHANGED <<ingestVars, users, res>>

StatsActiveSensors(h) ==
    /\ web[h].pc = "stats_sensors"
    /\ web' = [web EXCEPT ![h].pc = "stats_alerts",
                          ![h].acc.active_sensors = ActiveSensors(web[h].user, Sensor)]
    /\ UNCHANGED <<ingestVars, users, res>>

\* the last query, then res.json of the four values
StatsUnreadAlerts(h) ==
    /\ web[h].pc = "stats_alerts"
    /\ Respond(h, 200, "",
               [web[h].acc EXCEPT !.unread_alerts = UnreadAlerts(web[h].user, Stored)])
    /\ UNCHANGED <<ingestVars, users>>

\* POST /api/emissions behind authenticateToken: the handler's INSERT
HandlePostEmissions(h) ==
    /\ Running(h, "POST /api/emissions")
    /\ PostEmissions
    /\ web' = [web EXCEPT ![h].pc = "awaiting"]
    /\ UNCHANGED <<users, res>>

\* the handler's res.status(201) or res.status(500) when the INSERT has ended
HandleRespondEmissions(h) ==
    /\ web[h].pc = "awaiting"
    /\ RespondEmissions
    /\ IF out'["api"] = "201"
       THEN Respond(h, 201, "", <<>>)
       ELSE Respond(h, 500, "Failed to record emission", <<>>)
    /\ UNCHANGED users

\* readings above and below the threshold a stored reading can have
ReadValues == {850, 1050}

\* a store as the two procedures leave it: each stored reading with the Alert
\* check_emission_threshold writes for it or the credit and link
\* calculate_carbon_credits writes for it
DerivedStore(reading) ==
    LET n == DOMAIN reading
        over == { i \in n : ThresholdExceeded(reading[i][1], v_threshold) }
    IN [Emission_Data |->
            { IF i \in over
              THEN [EmissionRow(<<"EM", i>>, reading[i][1], reading[i][2])
                       EXCEPT !.alert_id = <<"ALERT", i>>]
              ELSE EmissionRow(<<"EM", i>>, reading[i][1], reading[i][2]) : i \in n },
        Alert |->
            { AlertRow(<<"ALERT", i>>, reading[i][1], v_threshold,
                       OwnerOf(reading[i][2])) : i \in over },
        Carbon_Credit |->
            { CreditRow(<<"CC", i>>, reading[i][1], v_threshold) : i \in n \ over },
        Credit_Emission_Map |->
            { MapRow(<<"CC", i>>, <<"EM", i>>) : i \in n \ over }]

ReadInit ==
    /\ \E n \in SUBSET (1..NumEmissionIds) :
          \E reading \in [n -> ReadValues \X {s.sensor_id : s \in Sensor}] :
              db = DerivedStore(reading)
    /\ tx = [p \in Conns |-> EmptyStore]
    /\ pc = [p \in Conns |-> "idle"]
    /\ req = [p \in Conns |-> NoRequest]
    /\ err = [p \in Conns |-> "none"]
    /\ out = [p \in Conns |-> "none"]
    /\ HttpInit

\* one request of the read layer in service at a time
OneAtATime == {"h1"}

\* the routes that only read
ReadRoutes == AuthRoutes \ {"POST /api/emissions"}

\* authenticated requests of the read layer on a store that holds still
ReadNext ==
    \/ \E h \in OneAtATime, route \in ReadRoutes, hdr \in AuthHeaders :
          AuthenticateToken(h, route, hdr)
    \/ \E h \in OneAtATime : GetRecentEmissions(h)
    \/ \E h \in OneAtATime : GetAlerts(h)
    \/ \E h \in OneAtATime : StatsCurrentEmission(h)
    \/ \E h \in OneAtATime : StatsTotalCredits(h)
    \/ \E h \in OneAtATime : StatsActiveSensors(h)
    \/ \E h \in OneAtATime : StatsUnreadAlerts(h)

ReadSpec == ReadInit /\ [][ReadNext]_vars

\* the server alone on the store the schema script leaves: requests on every
\* authenticated route, and the statements of the INSERT of POST /api/emissions
AuthNext ==
    \/ \E h \in OneAtATime, route \in AuthRoutes, hdr \in AuthHeaders :
          AuthenticateToken(h, route, hdr)
    \/ \E h \in OneAtATime : GetRecentEmissions(h)
    \/ \E h \in OneAtATime : GetAlerts(h)
    \/ \E h \in OneAtATime : StatsCurrentEmission(h)
    \/ \E h \in OneAtATime : StatsTotalCredits(h)
    \/ \E h \in OneAtATime : StatsActiveSensors(h)
    \/ \E h \in OneAtATime : StatsUnreadAlerts(h)
    \/ \E h \in OneAtATime : HandlePostEmissions(h)
    \/ \E h \in OneAtATime : HandleRespondEmissions(h)
    \/ CheckEmissionThreshold("api") /\ UNCHANGED httpVars
    \/ UpdateAlertRef("api") /\ UNCHANGED httpVars
    \/ CalculateCarbonCredits("api") /\ UNCHANGED httpVars
    \/ LinkEmissionToCredit("api") /\ UNCHANGED httpVars
    \/ Commit("api") /\ UNCHANGED httpVars

AuthSpec == Init /\ [][AuthNext]_vars


\* the serial bridge inserting readings while the server answers
\* GET /api/dashboard/stats
StatsNext ==
    \/ \E h \in OneAtATime, hdr \in AuthHeaders :
          AuthenticateToken(h, "GET /api/dashboard/stats", hdr)
    \/ \E h \in OneAtATime : StatsCurrentEmission(h)
    \/ \E h \in OneAtATime : StatsTotalCredits(h)
    \/ \E h \in OneAtATime : StatsActiveSensors(h)
    \/ \E h \in OneAtATime : StatsUnreadAlerts(h)
    \/ SaveToDatabase /\ UNCHANGED httpVars
    \/ CheckEmissionThreshold("bridge") /\ UNCHANGED httpVars
    \/ UpdateAlertRef("bridge") /\ UNCHANGED httpVars
    \/ CalculateCarbonCredits("bridge") /\ UNCHANGED httpVars
    \/ LinkEmissionToCredit("bridge") /\ UNCHANGED httpVars
    \/ Commit("bridge") /\ UNCHANGED httpVars
    \/ ReturnSaved /\ UNCHANGED httpVars

StatsSpec == Init /\ [][StatsNext]_vars

----------------------------------------------------------------------------
(* POST /api/auth/register *)

\* the email of a sample user and one no user has yet
Emails == {"demo@industry.com", "new@plant.com"}

\* req.body: name and password there or not, email one of Emails or missing
RegisterBodies == [name : BOOLEAN, email : Emails \cup {""}, password : BOOLEAN]

\* user_id INT PRIMARY KEY AUTO_INCREMENT
NextUserId == 1 + Cardinality(users)

\* the handler up to its first await: 400 when a field is missing
PostRegister(h, body) ==
    /\ web[h].pc \in {"idle", "done"}
    /\ IF ~body.name \/ body.email = "" \/ ~body.password
       THEN /\ web' = [web EXCEPT ![h] =
                          [NoCall EXCEPT !.pc = "done",
                                         !.route = "POST /api/auth/register",
                                         !.body = body]]
            /\ res' = [res EXCEPT ![h] =
                          [status |-> 400, error |-> "All fields required",
                           body |-> <<>>]]
       ELSE /\ web' = [web EXCEPT ![h] =
                          [NoCall EXCEPT !.pc = "register_select",
                                         !.route = "POST /api/auth/register",
                                         !.body = body]]
            /\ res' = [res EXCEPT ![h] = NoResponse]
    /\ UNCHANGED <<ingestVars, users>>

\* SELECT user_id FROM User WHERE email = ?, then 409 when a row came back
RegisterSelect(h) ==
    /\ web[h].pc = "register_select"
    /\ IF \E u \in users : u.email = web[h].body.email
       THEN Respond(h, 409, "Email already registered", <<>>)
       ELSE /\ web' = [web EXCEPT ![h].pc = "register_insert"]
            /\ res' = res
    /\ UNCHANGED <<ingestVars, users>>

\* after bcrypt.hash: INSERT INTO User, which the UNIQUE email refuses with
\* ER_DUP_ENTRY when a row with that email has been committed meanwhile; the
\* catch block answers every error 500
RegisterInsert(h) ==
    /\ web[h].pc = "register_insert"
    /\ IF \E u \in users : u.email = web[h].body.email
       THEN /\ Respond(h, 500, "Registration failed", <<>>)
            /\ users' = users
       ELSE /\ users' = users \cup
                   {[user_id |-> NextUserId, email |-> web[h].body.email]}
            /\ Respond(h, 201, "", <<NextUserId>>)
    /\ UNCHANGED ingestVars

RegisterNext ==
    \/ \E h \in Handlers, body \in RegisterBodies : PostRegister(h, body)
    \/ \E h \in Handlers : RegisterSelect(h)
    \/ \E h \in Handlers : RegisterInsert(h)

RegisterSpec == Init /\ [][RegisterNext]_vars

----------------------------------------------------------------------------
(* Properties *)

\* the readings, credits, links and alerts a query of another connection sees
Readings == Snapshot("Emission_Data")
Credits  == Snapshot("Carbon_Credit")
Links    == Snapshot("Credit_Emission_Map")
Alerts   == Snapshot("Alert")

LinksOfReading(r) == { m \in Links : m.emission_id = r.emission_id }
LinksOfCredit(c)  == { m \in Links : m.credit_id = c.credit_id }
CreditsOfReading(r) ==
    { c \in Credits : \E m \in LinksOfReading(r) : m.credit_id = c.credit_id }

\* C1 (as claimed): when the insertion of a reading has ended, an Alert made
\* by its derivation is in the store if and only if the reading's co2_value
\* is strictly greater than the threshold 1000.
C1_AlertIffExceeded ==
    \A p \in Conns :
        (pc[p] = "respond" /\ req[p].emission_id # NULL)
            => (req[p].co2_value > v_threshold
                    <=> \E a \in Alerts : a.alert_id = req[p].alert_id)

\* C2: every Alert made by check_emission_threshold for a value v above the
\* threshold t is 'critical' when v > 1.2 t, 'high' when 1.1 t < v <= 1.2 t and
\* 'medium' when t < v <= 1.1 t; v equal to 1.1 t or 1.2 t is in the lower
\* band, and 'low' is never produced.
C2_SeverityBands ==
    \A a \in Alerts :
        LET v == a.alert_message[1]
            t == a.threshold_value
        IN  /\ v > t
            /\ a.severity # "low"
            /\ (10 * v > 12 * t) => a.severity = "critical"
            /\ (11 * t < 10 * v /\ 10 * v <= 12 * t) => a.severity = "high"
            /\ (10 * v <= 11 * t) => a.severity = "medium"

\* an Alert of severity 'high' for a value exactly 1.2 times a positive threshold
C2_Witness ==
    \E a \in Alerts :
        /\ a.threshold_value > 0
        /\ 10 * a.alert_message[1] = 12 * a.threshold_value
        /\ a.severity = "high"

\* C3: a stored reading has a Credit if and only if its co2_value does not
\* exceed the threshold; the statement inserting a reading above the threshold
\* never writes a Credit or a Link; and a Credit records the reading's
\* co2_value as emission_value and the threshold as allowed_limit.
C3_CreditIffWithinLimit ==
    /\ \A r \in Readings :
          /\ (r.co2_value <= v_threshold) <=> (CreditsOfReading(r) # {})
          /\ \A c \in CreditsOfReading(r) :
                c.emission_value = r.co2_value /\ c.allowed_limit = v_threshold
    /\ \A p \in Conns : \A r \in tx[p]["Emission_Data"] :
          r.co2_value > v_threshold =>
              tx[p]["Carbon_Credit"] = {} /\ tx[p]["Credit_Emission_Map"] = {}

\* a stored reading at the threshold with its Credit, while the derivation of
\* a reading above the threshold has made its Alert and no Credit
C3_Witness ==
    /\ \E r \in Readings : r.co2_value = v_threshold /\ CreditsOfReading(r) # {}
    /\ \E p \in Conns : /\ pc[p] = "update_alert_ref"
                        /\ req[p].co2_value > v_threshold

\* C4: every Credit made by calculate_carbon_credits has credit_amount =
\* (allowed_limit - emission_value) / 1000 and status 'deficit' iff
\* emission_value > allowed_limit, 'neutral' iff they are equal and 'earned'
\* iff emission_value < allowed_limit, whatever the reading, sensor or id.
C4_CreditAmountAndStatus ==
    \A c \in Credits :
        /\ c.credit_amount.num = c.allowed_limit - c.emission_value
        /\ c.credit_amount.den = 1000
        /\ (c.status = "deficit") <=> (c.emission_value > c.allowed_limit)
        /\ (c.status = "neutral") <=> (c.emission_value = c.allowed_limit)
        /\ (c.status = "earned")  <=> (c.emission_value < c.allowed_limit)
        /\ \A r \in Readings : c \in CreditsOfReading(r) =>
                                   c.emission_value = r.co2_value

\* a Credit for a reading above its allowed limit
C4_Witness ==
    \E c \in Credits : c.emission_value > c.allowed_limit /\ c.status = "deficit"

\* C5: every Credit has exactly one Link, and every Link references one
\* existing Credit and one existing Reading, the one whose value the Credit
\* records.
C5_CreditLinkIntegrity ==
    /\ \A c \in Credits : Cardinality(LinksOfCredit(c)) = 1
    /\ \A m \in Links :
          /\ Cardinality({ c \in Credits : c.credit_id = m.credit_id }) = 1
          /\ Cardinality({ r \in Readings : r.emission_id = m.emission_id }) = 1
          /\ \A c \in Credits, r \in Readings :
                (c.credit_id = m.credit_id /\ r.emission_id = m.emission_id)
                    => c.emission_value = r.co2_value

\* two stored readings, each with its own Credit and Link
C5_Witness ==
    /\ Cardinality(Credits) >= 2
    /\ Cardinality(Links) >= 2

C8_NoPartialDerivationVisible ==
    /\ \A a \in Alerts : \E r \in Readings : r.alert_id = a.alert_id
    /\ \A c \in Credits : LinksOfCredit(c) # {}
    /\ \A r \in Readings :
          IF r.co2_value > v_threshold
          THEN \E a \in Alerts : a.alert_id = r.alert_id
          ELSE CreditsOfReading(r) # {}

\* one statement has written its Credit and not yet the Link while the other
\* has written its Alert and not the reading's alert reference
C8_Witness ==
    \E p, q \in Conns :
        /\ pc[p] = "insert_map" /\ tx[p]["Carbon_Credit"] # {}
        /\ pc[q] = "update_alert_ref" /\ tx[q]["Alert"] # {}

\* C9: the step in which a sub-statement fails leaves the store as it was
\* before the statement and discards every row the statement wrote, and the
\* client then reports the failure: 500 from POST /api/emissions, false from
\* saveToDatabase.
C9_FailureRollsBack ==
    [][\A p \in Conns :
          /\ (err[p] = "none" /\ err'[p] # "none")
                => /\ \A t \in Tables : Snapshot(t)' = Snapshot(t)
                   /\ \A t \in Tables : tx'[p][t] = {}
          /\ (pc[p] = "respond" /\ pc'[p] = "idle" /\ err[p] # "none")
                => out'[p] = IF p = "api" THEN "500" ELSE "false"]_vars

\* a Credit identifier collided after the reading was written: the statement
\* failed and holds no row
C9_Witness ==
    \E p \in Conns :
        /\ pc[p] = "respond"
        /\ err[p] = "ER_DUP_ENTRY"
        /\ req[p].emission_id # NULL
        /\ req[p].co2_value <= v_threshold
        /\ req[p].emission_id \notin Keys(Readings, "Emission_Data")

\* the errors MySQL raises for a missing or non-numeric co2_value and for a
\* missing or unknown sensor_id
InvalidInputErrors == {"ER_BAD_NULL_ERROR", "ER_WRONG_VALUE", "ER_NO_REFERENCED_ROW"}

\* C10 (as claimed): a request of POST /api/emissions with a missing or
\* unknown sensor_id, or a missing or non-finite co2_value, leaves the store
\* unchanged and is answered 400.
C10_InvalidInputAnswered400 ==
    [][/\ (pc["api"] = "idle" /\ pc'["api"] = "respond"
              /\ err'["api"] \in InvalidInputErrors)
            => (db' = db /\ tx' = tx)
       /\ (pc["api"] = "respond" /\ pc'["api"] = "idle"
              /\ err["api"] \in InvalidInputErrors)
            => out'["api"] = "400"]_vars

\* the part of the store and of the Sensor table that belongs to one user
OwnStore(u) ==
    LET own == { r \in Readings : OwnerOf(r.sensor_id) = u } IN
    [Emission_Data |-> own,
     Credit_Emission_Map |->
         { m \in Links : \E r \in own : r.emission_id = m.emission_id },
     Carbon_Credit |->
         { c \in Credits : \E m \in Links, r \in own :
               m.credit_id = c.credit_id /\ m.emission_id = r.emission_id },
     Alert |-> { a \in Alerts : a.user_id = u }]

OwnSensors(u) == { s \in Sensor : s.user_id = u }

Answered(h, route) ==
    web[h].pc = "done" /\ web[h].route = route /\ res[h].status = 200

\* C11: every answer of GET /api/emissions/recent, GET /api/dashboard/stats and
\* GET /api/alerts holds only rows owned by the user of the verified token
\* (readings of the user's sensors, alerts with the user's user_id) and is the
\* answer the same query gives on a store from which the rows and sensors of
\* every other user are removed.
C11_ScopedToPrincipal ==
    \A h \in Handlers :
        LET u == web[h].user IN
        /\ Answered(h, "GET /api/emissions/recent") =>
              /\ \A i \in 1..Len(res[h].body) :
                    OwnerOf(res[h].body[i].sensor_id) = u
              /\ res[h].body = RecentEmissions(u, OwnStore(u), OwnSensors(u))
        /\ Answered(h, "GET /api/alerts") =>
              /\ \A i \in 1..Len(res[h].body) : res[h].body[i].user_id = u
              /\ res[h].body = AlertsOf(u, OwnStore(u))
        /\ Answered(h, "GET /api/dashboard/stats") =>
              res[h].body =
                  [current_emission |-> CurrentEmission(u, OwnStore(u), OwnSensors(u)),
                   total_credits    |-> TotalCredits(u, OwnStore(u), OwnSensors(u)),
                   active_sensors   |-> ActiveSensors(u, OwnSensors(u)),
                   unread_alerts    |-> UnreadAlerts(u, OwnStore(u))]

\* a user with a reading of their own was answered their recent readings while
\* another user has a reading and an alert in the store
C11_Witness ==
    \E h \in Handlers :
        /\ Answered(h, "GET /api/emissions/recent")
        /\ Len(res[h].body) >= 1
        /\ \E r \in Readings : OwnerOf(r.sensor_id) # web[h].user
        /\ \E a \in Alerts : a.user_id # web[h].user

\* C12 (as claimed): while a GET /api/dashboard/stats call is between its
\* first and its last query, the committed store does not change.
C12_StatsReadOneState ==
    [][\A h \in Handlers :
          (/\ web[h].pc \in {"stats_credits", "stats_sensors", "stats_alerts"}
           /\ web'[h].pc \in {"stats_credits", "stats_sensors", "stats_alerts"})
              => Stored' = Stored]_vars

\* C14: on every authenticated route a request whose Authorization header
\* carries no token is answered 401, one whose token is forged, expired or no
\* token at all is answered 403, neither answer carries data nor comes with a
\* step of the store, and a handler is running or has answered only for a
\* token that verified, on behalf of the user in that token.
C14_TokenGuardsHandler ==
    /\ [](\A h \in Handlers :
            LET token == BearerToken(web[h].hdr)
                absent == Len(web[h].hdr) < 2 \/ token.kind = "empty"
                verified == ~absent /\ token.kind = "jwt" /\ token.jwt.state = "valid"
            IN web[h].route \in AuthRoutes =>
                 /\ (web[h].pc = "done" /\ absent) =>
                        res[h].status = 401 /\ res[h].body = <<>>
                 /\ (web[h].pc = "done" /\ ~absent /\ ~verified) =>
                        res[h].status = 403 /\ res[h].body = <<>>
                 /\ (web[h].pc # "done" \/ res[h].status \notin {401, 403}) =>
                        verified /\ web[h].user = token.jwt.user_id)
    /\ [][\A h \in Handlers :
            (web'[h] # web[h] /\ res'[h].status \in {401, 403})
                => UNCHANGED ingestVars]_vars

\* a reading was stored for a verified token, and the next request, with an
\* expired token, was answered 403
C14_Witness ==
    \E h \in Handlers :
        /\ web[h].pc = "done" /\ web[h].route = "POST /api/emissions"
        /\ Len(web[h].hdr) = 2 /\ web[h].hdr[2].jwt.state = "expired"
        /\ res[h].status = 403
        /\ Readings # {}

\* C15 (as claimed): a registration with all three fields is answered 201 or
\* 409, 409 when the email belongs to a user already; one with a field
\* missing is answered 400; no two users share an email.
C15_DuplicateEmailAnswered409 ==
    /\ \A u1, u2 \in users : u1.email = u2.email => u1 = u2
    /\ \A h \in Handlers :
          (web[h].route = "POST /api/auth/register" /\ web[h].pc = "done") =>
              IF ~web[h].body.name \/ web[h].body.email = "" \/ ~web[h].body.password
              THEN res[h].status = 400
              ELSE res[h].status \in {201, 409}

\* C13 (as claimed): when the derivation of a reading has made an Alert and
\* the insertion has ended, the Alert is stored, it belongs to the user who
\* owns the reading's sensor, and the stored reading's alert reference is the
\* Alert's identifier.
C13_AlertOwnedAndReferenced ==
    \A p \in Conns :
        (pc[p] = "respond" /\ req[p].alert_id # NULL)
            => \E r \in Readings, a \in Alerts :
                  /\ r.emission_id = req[p].emission_id
                  /\ a.alert_id = req[p].alert_id
                  /\ r.alert_id = a.alert_id
                  /\ a.user_id = OwnerOf(r.sensor_id)

\* C16: every stored reading has exactly one outcome, either an alert
\* reference and no Link or no alert reference and exactly one Link, and every
\* stored Credit is 'earned' or 'neutral'.
C16_ExactlyOneOutcome ==
    /\ \A r \in Readings :
          \/ r.alert_id # NULL /\ LinksOfReading(r) = {}
          \/ r.alert_id = NULL /\ Cardinality(LinksOfReading(r)) = 1
    /\ \A c \in Credits : c.status \in {"earned", "neutral"}

\* a stored reading below the threshold with its 'earned' Credit and one at
\* the threshold with its 'neutral' Credit
C16_Witness ==
    \E r1, r2 \in Readings :
        /\ r1.co2_value < v_threshold /\ r2.co2_value = v_threshold
        /\ \E c \in CreditsOfReading(r1) : c.status = "earned"
        /\ \E c \in CreditsOfReading(r2) : c.status = "neutral"

====
